---- MODULE Spec2Model ----
(***************************************************************************)
(* Model of backend/api/calendly_integration.py: the slot generator, the   *)
(* overlap detector and the booking commit over RUNTIME_BOOKINGS.          *)
(*                                                                         *)
(* Strings are sequences of characters, so that parsing                    *)
(* (datetime.strptime) and formatting (strftime) are computed and a        *)
(* request's spelling ("9:00" against "09:00") is kept apart from the time *)
(* it denotes.  A character is a one-character string when it is an ASCII  *)
(* character, and the string "U+" with its code point in hexadecimal when  *)
(* it is not ("U+07C5" is the NKO digit five).  A datetime is a record     *)
(* [err, day, min]: the proleptic Gregorian ordinal of its date and the    *)
(* minute of its day.                                                      *)
(***************************************************************************)
EXTENDS Integers, Sequences, FiniteSets, TLC

----------------------------------------------------------------------------
(* Characters and numbers *)

\* The characters 0 to 9, which the classes [0-9], [1-9], ... of a regular
\* expression hold and which strftime writes.
AsciiDigits == {"0", "1", "2", "3", "4", "5", "6", "7", "8", "9"}

\* The decimal digits of Unicode (category Nd), ten to a script, in the order
\* of their values: what \d of a regular expression over str matches and
\* int() converts.
DigitRows ==
    << <<"0", "1", "2", "3", "4", "5", "6", "7", "8", "9">>,
       <<"U+0660", "U+0661", "U+0662", "U+0663", "U+0664",
         "U+0665", "U+0666", "U+0667", "U+0668", "U+0669">>,
       <<"U+06F0", "U+06F1", "U+06F2", "U+06F3", "U+06F4",
         "U+06F5", "U+06F6", "U+06F7", "U+06F8", "U+06F9">>,
       <<"U+07C0", "U+07C1", "U+07C2", "U+07C3", "U+07C4",
         "U+07C5", "U+07C6", "U+07C7", "U+07C8", "U+07C9">>,
       <<"U+0966", "U+0967", "U+0968", "U+0969", "U+096A",
         "U+096B", "U+096C", "U+096D", "U+096E", "U+096F">>,
       <<"U+09E6", "U+09E7", "U+09E8", "U+09E9", "U+09EA",
         "U+09EB", "U+09EC", "U+09ED", "U+09EE", "U+09EF">>,
       <<"U+0A66", "U+0A67", "U+0A68", "U+0A69", "U+0A6A",
         "U+0A6B", "U+0A6C", "U+0A6D", "U+0A6E", "U+0A6F">>,
       <<"U+0AE6", "U+0AE7", "U+0AE8", "U+0AE9", "U+0AEA",
         "U+0AEB", "U+0AEC", "U+0AED", "U+0AEE", "U+0AEF">>,
       <<"U+0B66", "U+0B67", "U+0B68", "U+0B69", "U+0B6A",
         "U+0B6B", "U+0B6C", "U+0B6D", "U+0B6E", "U+0B6F">>,
       <<"U+0BE6", "U+0BE7", "U+0BE8", "U+0BE9", "U+0BEA",
         "U+0BEB", "U+0BEC", "U+0BED", "U+0BEE", "U+0BEF">>,
       <<"U+0C66", "U+0C67", "U+0C68", "U+0C69", "U+0C6A",
         "U+0C6B", "U+0C6C", "U+0C6D", "U+0C6E", "U+0C6F">>,
       <<"U+0CE6", "U+0CE7", "U+0CE8", "U+0CE9", "U+0CEA",
         "U+0CEB", "U+0CEC", "U+0CED", "U+0CEE", "U+0CEF">>,
       <<"U+0D66", "U+0D67", "U+0D68", "U+0D69", "U+0D6A",
         "U+0D6B", "U+0D6C", "U+0D6D", "U+0D6E", "U+0D6F">>,
       <<"U+0DE6", "U+0DE7", "U+0DE8", "U+0DE9", "U+0DEA",
         "U+0DEB", "U+0DEC", "U+0DED", "U+0DEE", "U+0DEF">>,
       <<"U+0E50", "U+0E51", "U+0E52", "U+0E53", "U+0E54",
         "U+0E55", "U+0E56", "U+0E57", "U+0E58", "U+0E59">>,
       <<"U+0ED0", "U+0ED1", "U+0ED2", "U+0ED3", "U+0ED4",
         "U+0ED5", "U+0ED6", "U+0ED7", "U+0ED8", "U+0ED9">>,
       <<"U+0F20", "U+0F21", "U+0F22", "U+0F23", "U+0F24",
         "U+0F25", "U+0F26", "U+0F27", "U+0F28", "U+0F29">>,
       <<"U+1040", "U+1041", "U+1042", "U+1043", "U+1044",
         "U+1045", "U+1046", "U+1047", "U+1048", "U+1049">>,
       <<"U+1090", "U+1091", "U+1092", "U+1093", "U+1094",
         "U+1095", "U+1096", "U+1097", "U+1098", "U+1099">>,
       <<"U+17E0", "U+17E1", "U+17E2", "U+17E3", "U+17E4",
         "U+17E5", "U+17E6", "U+17E7", "U+17E8", "U+17E9">>,
       <<"U+1810", "U+1811", "U+1812", "U+1813", "U+1814",
         "U+1815", "U+1816", "U+1817", "U+1818", "U+1819">>,
       <<"U+1946", "U+1947", "U+1948", "U+1949", "U+194A",
         "U+194B", "U+194C", "U+194D", "U+194E", "U+194F">>,
       <<"U+19D0", "U+19D1", "U+19D2", "U+19D3", "U+19D4",
         "U+19D5", "U+19D6", "U+19D7", "U+19D8", "U+19D9">>,
       <<"U+1A80", "U+1A81", "U+1A82", "U+1A83", "U+1A84",
         "U+1A85", "U+1A86", "U+1A87", "U+1A88", "U+1A89">>,
       <<"U+1A90", "U+1A91", "U+1A92", "U+1A93", "U+1A94",
         "U+1A95", "U+1A96", "U+1A97", "U+1A98", "U+1A99">>,
       <<"U+1B50", "U+1B51", "U+1B52", "U+1B53", "U+1B54",
         "U+1B55", "U+1B56", "U+1B57", "U+1B58", "U+1B59">>,
       <<"U+1BB0", "U+1BB1", "U+1BB2", "U+1BB3", "U+1BB4",
         "U+1BB5", "U+1BB6", "U+1BB7", "U+1BB8", "U+1BB9">>,
       <<"U+1C40", "U+1C41", "U+1C42", "U+1C43", "U+1C44",
         "U+1C45", "U+1C46", "U+1C47", "U+1C48", "U+1C49">>,
       <<"U+1C50", "U+1C51", "U+1C52", "U+1C53", "U+1C54",
         "U+1C55", "U+1C56", "U+1C57", "U+1C58", "U+1C59">>,
       <<"U+A620", "U+A621", "U+A622", "U+A623", "U+A624",
         "U+A625", "U+A626", "U+A627", "U+A628", "U+A629">>,
       <<"U+A8D0", "U+A8D1", "U+A8D2", "U+A8D3", "U+A8D4",
         "U+A8D5", "U+A8D6", "U+A8D7", "U+A8D8", "U+A8D9">>,
       <<"U+A900", "U+A901", "U+A902", "U+A903", "U+A904",
         "U+A905", "U+A906", "U+A907", "U+A908", "U+A909">>,
       <<"U+A9D0", "U+A9D1", "U+A9D2", "U+A9D3", "U+A9D4",
         "U+A9D5", "U+A9D6", "U+A9D7", "U+A9D8", "U+A9D9">>,
       <<"U+A9F0", "U+A9F1", "U+A9F2", "U+A9F3", "U+A9F4",
         "U+A9F5", "U+A9F6", "U+A9F7", "U+A9F8", "U+A9F9">>,
       <<"U+AA50", "U+AA51", "U+AA52", "U+AA53", "U+AA54",
         "U+AA55", "U+AA56", "U+AA57", "U+AA58", "U+AA59">>,
       <<"U+ABF0", "U+ABF1", "U+ABF2", "U+ABF3", "U+ABF4",
         "U+ABF5", "U+ABF6", "U+ABF7", "U+ABF8", "U+ABF9">>,
       <<"U+FF10", "U+FF11", "U+FF12", "U+FF13", "U+FF14",
         "U+FF15", "U+FF16", "U+FF17", "U+FF18", "U+FF19">>,
       <<"U+104A0", "U+104A1", "U+104A2", "U+104A3", "U+104A4",
         "U+104A5", "U+104A6", "U+104A7", "U+104A8", "U+104A9">>,
       <<"U+10D30", "U+10D31", "U+10D32", "U+10D33", "U+10D34",
         "U+10D35", "U+10D36", "U+10D37", "U+10D38", "U+10D39">>,
       <<"U+11066", "U+11067", "U+11068", "U+11069", "U+1106A",
         "U+1106B", "U+1106C", "U+1106D", "U+1106E", "U+1106F">>,
       <<"U+110F0", "U+110F1", "U+110F2", "U+110F3", "U+110F4",
         "U+110F5", "U+110F6", "U+110F7", "U+110F8", "U+110F9">>,
       <<"U+11136", "U+11137", "U+11138", "U+11139", "U+1113A",
         "U+1113B", "U+1113C", "U+1113D", "U+1113E", "U+1113F">>,
       <<"U+111D0", "U+111D1", "U+111D2", "U+111D3", "U+111D4",
         "U+111D5", "U+111D6", "U+111D7", "U+111D8", "U+111D9">>,
       <<"U+112F0", "U+112F1", "U+112F2", "U+112F3", "U+112F4",
         "U+112F5", "U+112F6", "U+112F7", "U+112F8", "U+112F9">>,
       <<"U+11450", "U+11451", "U+11452", "U+11453", "U+11454",
         "U+11455", "U+11456", "U+11457", "U+11458", "U+11459">>,
       <<"U+114D0", "U+114D1", "U+114D2", "U+114D3", "U+114D4",
         "U+114D5", "U+114D6", "U+114D7", "U+114D8", "U+114D9">>,
       <<"U+11650", "U+11651", "U+11652", "U+11653", "U+11654",
         "U+11655", "U+11656", "U+11657", "U+11658", "U+11659">>,
       <<"U+116C0", "U+116C1", "U+116C2", "U+116C3", "U+116C4",
         "U+116C5", "U+116C6", "U+116C7", "U+116C8", "U+116C9">>,
       <<"U+11730", "U+11731", "U+11732", "U+11733", "U+11734",
         "U+11735", "U+11736", "U+11737", "U+11738", "U+11739">>,
       <<"U+118E0", "U+118E1", "U+118E2", "U+118E3", "U+118E4",
         "U+118E5", "U+118E6", "U+118E7", "U+118E8", "U+118E9">>,
       <<"U+11950", "U+11951", "U+11952", "U+11953", "U+11954",
         "U+11955", "U+11956", "U+11957", "U+11958", "U+11959">>,
       <<"U+11C50", "U+11C51", "U+11C52", "U+11C53", "U+11C54",
         "U+11C55", "U+11C56", "U+11C57", "U+11C58", "U+11C59">>,
       <<"U+11D50", "U+11D51", "U+11D52", "U+11D53", "U+11D54",
         "U+11D55", "U+11D56", "U+11D57", "U+11D58", "U+11D59">>,
       <<"U+11DA0", "U+11DA1", "U+11DA2", "U+11DA3", "U+11DA4",
         "U+11DA5", "U+11DA6", "U+11DA7", "U+11DA8", "U+11DA9">>,
       <<"U+16A60", "U+16A61", "U+16A62", "U+16A63", "U+16A64",
         "U+16A65", "U+16A66", "U+16A67", "U+16A68", "U+16A69">>,
       <<"U+16AC0", "U+16AC1", "U+16AC2", "U+16AC3", "U+16AC4",
         "U+16AC5", "U+16AC6", "U+16AC7", "U+16AC8", "U+16AC9">>,
       <<"U+16B50", "U+16B51", "U+16B52", "U+16B53", "U+16B54",
         "U+16B55", "U+16B56", "U+16B57", "U+16B58", "U+16B59">>,
       <<"U+1D7CE", "U+1D7CF", "U+1D7D0", "U+1D7D1", "U+1D7D2",
         "U+1D7D3", "U+1D7D4", "U+1D7D5", "U+1D7D6", "U+1D7D7">>,
       <<"U+1D7D8", "U+1D7D9", "U+1D7DA", "U+1D7DB", "U+1D7DC",
         "U+1D7DD", "U+1D7DE", "U+1D7DF", "U+1D7E0", "U+1D7E1">>,
       <<"U+1D7E2", "U+1D7E3", "U+1D7E4", "U+1D7E5", "U+1D7E6",
         "U+1D7E7", "U+1D7E8", "U+1D7E9", "U+1D7EA", "U+1D7EB">>,
       <<"U+1D7EC", "U+1D7ED", "U+1D7EE", "U+1D7EF", "U+1D7F0",
         "U+1D7F1", "U+1D7F2", "U+1D7F3", "U+1D7F4", "U+1D7F5">>,
       <<"U+1D7F6", "U+1D7F7", "U+1D7F8", "U+1D7F9", "U+1D7FA",
         "U+1D7FB", "U+1D7FC", "U+1D7FD", "U+1D7FE", "U+1D7FF">>,
       <<"U+1E140", "U+1E141", "U+1E142", "U+1E143", "U+1E144",
         "U+1E145", "U+1E146", "U+1E147", "U+1E148", "U+1E149">>,
       <<"U+1E2F0", "U+1E2F1", "U+1E2F2", "U+1E2F3", "U+1E2F4",
         "U+1E2F5", "U+1E2F6", "U+1E2F7", "U+1E2F8", "U+1E2F9">>,
       <<"U+1E950", "U+1E951", "U+1E952", "U+1E953", "U+1E954",
         "U+1E955", "U+1E956", "U+1E957", "U+1E958", "U+1E959">>,
       <<"U+1FBF0", "U+1FBF1", "U+1FBF2", "U+1FBF3", "U+1FBF4",
         "U+1FBF5", "U+1FBF6", "U+1FBF7", "U+1FBF8", "U+1FBF9">> >>

\* \d
DigitChars == { DigitRows[r][i] : r \in 1..Len(DigitRows), i \in 1..10 }

\* The value of a digit, as int() gives it.
DigitTable ==
    [c \in DigitChars |->
        (CHOOSE i \in 1..10 : \E r \in 1..Len(DigitRows) : DigitRows[r][i] = c) - 1]

\* The digit that strftime writes for n.
DigitChar(n) == DigitRows[1][n + 1]

\* The number that the n digits of s from place p denote.
RECURSIVE NumVal(_, _, _)
NumVal(s, p, n) ==
    IF n = 0 THEN 0 ELSE 10 * NumVal(s, p, n - 1) + DigitTable[s[p + n - 1]]

\* \s of a regular expression over str: the characters for which
\* str.isspace() holds.
WhiteChars ==
    { "\t", "\n", "U+000B", "\f", "\r", "U+001C", "U+001D", "U+001E",
      "U+001F", " ", "U+0085", "U+00A0", "U+1680", "U+2000", "U+2001",
      "U+2002", "U+2003", "U+2004", "U+2005", "U+2006", "U+2007", "U+2008",
      "U+2009", "U+200A", "U+2028", "U+2029", "U+202F", "U+205F", "U+3000" }

\* Whether s has at place p a character of C.
At(s, p, C) == p <= Len(s) /\ s[p] \in C

----------------------------------------------------------------------------
(* datetime.strptime: the regular expressions of the directives (CPython,  *)
(* _strptime.TimeRE) as the two formats of the code use them.  strptime    *)
(* matches the expression at the start of the string and raises ValueError *)
(* when there is no match or when characters remain after it.  Each field  *)
(* is followed by a character no field holds, so the first alternative of  *)
(* a field that matches is the only one that can lead to a match: a field's *)
(* length is 0 (no alternative matches), 1 or 2.                           *)

NonZero == AsciiDigits \ {"0"}

\* %m : 1[0-2]|0[1-9]|[1-9]
MonthLen(s, p) ==
    IF \/ At(s, p, {"1"}) /\ At(s, p + 1, {"0", "1", "2"})
       \/ At(s, p, {"0"}) /\ At(s, p + 1, NonZero)
    THEN 2
    ELSE IF At(s, p, NonZero) THEN 1 ELSE 0

\* %d : 3[0-1]|[1-2]\d|0[1-9]|[1-9]| [1-9]
DayLen(s, p) ==
    IF \/ At(s, p, {"3"}) /\ At(s, p + 1, {"0", "1"})
       \/ At(s, p, {"1", "2"}) /\ At(s, p + 1, DigitChars)
       \/ At(s, p, {"0"}) /\ At(s, p + 1, NonZero)
    THEN 2
    ELSE IF At(s, p, NonZero) THEN 1
    ELSE IF At(s, p, {" "}) /\ At(s, p + 1, NonZero) THEN 2 ELSE 0

\* %H : 2[0-3]|[0-1]\d|\d
HourLen(s, p) ==
    IF \/ At(s, p, {"2"}) /\ At(s, p + 1, {"0", "1", "2", "3"})
       \/ At(s, p, {"0", "1"}) /\ At(s, p + 1, DigitChars)
    THEN 2
    ELSE IF At(s, p, DigitChars) THEN 1 ELSE 0

\* %M : [0-5]\d|\d
MinuteLen(s, p) ==
    IF At(s, p, {"0", "1", "2", "3", "4", "5"}) /\ At(s, p + 1, DigitChars)
    THEN 2
    ELSE IF At(s, p, DigitChars) THEN 1 ELSE 0

\* \s+ : the white characters from place p on
RECURSIVE WhiteLen(_, _)
WhiteLen(s, p) == IF At(s, p, WhiteChars) THEN 1 + WhiteLen(s, p + 1) ELSE 0

IsLeap(y) == (y % 4 = 0) /\ ((y % 100 # 0) \/ (y % 400 = 0))

DaysInMonth(y, m) ==
    CASE m \in {1, 3, 5, 7, 8, 10, 12} -> 31
      [] m \in {4, 6, 9, 11} -> 30
      [] OTHER -> IF IsLeap(y) THEN 29 ELSE 28

RECURSIVE DaysBeforeMonth(_, _)
DaysBeforeMonth(y, m) ==
    IF m <= 1 THEN 0 ELSE DaysBeforeMonth(y, m - 1) + DaysInMonth(y, m - 1)

\* datetime.toordinal(): 0001-01-01 is day 1.
ToOrdinal(y, m, d) ==
    LET p == y - 1
    IN  p * 365 + (p \div 4) - (p \div 100) + (p \div 400)
          + DaysBeforeMonth(y, m) + d

ValueError == [err |-> TRUE]

NoDate == [ok |-> FALSE, y |-> 0, m |-> 0, d |-> 0, next |-> 0]

\* The day field, the month being ml characters long and the day dl.
DateFields(s, ml, dl) ==
    IF ml = 0 \/ dl = 0 \/ ~At(s, 6 + ml, {"-"}) THEN NoDate
    ELSE [ok |-> TRUE,
          y |-> NumVal(s, 1, 4),
          m |-> NumVal(s, 6, ml),
          d |-> IF s[7 + ml] = " " THEN NumVal(s, 8 + ml, 1)
                ELSE NumVal(s, 7 + ml, dl),
          next |-> 7 + ml + dl]

DateAfterMonth(s, ml) == DateFields(s, ml, DayLen(s, 7 + ml))

\* The match of "%Y-%m-%d" at the start of s: [ok, y, m, d, next], next the
\* place after the day.
MatchDate(s) ==
    IF (\A i \in 1..4 : At(s, i, DigitChars)) /\ At(s, 5, {"-"})
    THEN DateAfterMonth(s, MonthLen(s, 6))
    ELSE NoDate

\* datetime(y, m, d, ...) raises ValueError for year 0 and for a day the
\* month does not have.
ValidDate(c) == c.ok /\ c.y >= 1 /\ c.d >= 1 /\ c.d <= DaysInMonth(c.y, c.m)

DateValue(c, minute) ==
    IF ValidDate(c)
    THEN [err |-> FALSE, day |-> ToOrdinal(c.y, c.m, c.d), min |-> minute]
    ELSE ValueError

StrpDateEnd(date_str, c) ==
    IF c.ok /\ c.next = Len(date_str) + 1 THEN DateValue(c, 0) ELSE ValueError

\* datetime.strptime(date_str, "%Y-%m-%d")
StrpDate(date_str) == StrpDateEnd(date_str, MatchDate(date_str))

\* ":%M" and the end of the string, the hour being the hl characters from hp.
MinuteField(s, c, hp, hl, ml) ==
    IF hl > 0 /\ At(s, hp + hl, {":"}) /\ ml > 0 /\ hp + hl + 1 + ml = Len(s) + 1
    THEN DateValue(c, 60 * NumVal(s, hp, hl) + NumVal(s, hp + hl + 1, ml))
    ELSE ValueError

HourField(s, c, hp, hl) == MinuteField(s, c, hp, hl, MinuteLen(s, hp + hl + 1))

\* "\s+%H:%M" after the date, wl white characters following it.
TimeFields(s, c, wl) ==
    IF c.ok /\ wl > 0
    THEN HourField(s, c, c.next + wl, HourLen(s, c.next + wl))
    ELSE ValueError

TimeAfterDate(s, c) == TimeFields(s, c, WhiteLen(s, c.next))

\* datetime.strptime(s, "%Y-%m-%d %H:%M")
StrpDateTime(s) == TimeAfterDate(s, MatchDate(s))

----------------------------------------------------------------------------
(* The helpers of calendly_integration.py *)

AppointmentTypes == {"consultation", "followup", "physical", "special"}

\* APPOINTMENT_DURATIONS_MIN
APPOINTMENT_DURATIONS_MIN ==
    [t \in AppointmentTypes |->
       CASE t = "consultation" -> 30
         [] t = "followup" -> 15
         [] t = "physical" -> 45
         [] OTHER -> 60]

WeekdayNames ==
    <<"monday", "tuesday", "wednesday", "thursday", "friday", "saturday", "sunday">>

\* _parse_time: strptime of f"{date_str} {time_str}"
ParseTime(date_str, time_str) == StrpDateTime(date_str \o <<" ">> \o time_str)

\* _format_time: strftime("%H:%M"), always two digits each
FormatTime(dt) ==
    LET h == dt.min \div 60
        m == dt.min % 60
    IN  <<DigitChar(h \div 10), DigitChar(h % 10), ":",
          DigitChar(m \div 10), DigitChar(m % 10)>>

\* datetime.max.toordinal(): 9999-12-31 is the last day a datetime holds.
MaxOrdinal == ToOrdinal(9999, 12, 31)

\* What datetime + timedelta gives when it raises OverflowError.
OverflowError == [err |-> TRUE]

\* datetime + timedelta(minutes=n), n >= 0: OverflowError ("date value out
\* of range") when the sum lies after 9999-12-31.
AddMinutes(dt, n) ==
    LET total == dt.min + n
    IN  IF dt.day + (total \div 1440) > MaxOrdinal THEN OverflowError
        ELSE [err |-> FALSE, day |-> dt.day + (total \div 1440),
              min |-> total % 1440]

\* datetime comparison
DtLess(a, b) == a.day < b.day \/ (a.day = b.day /\ a.min < b.min)
DtLeq(a, b) == a = b \/ DtLess(a, b)

\* _overlaps with a_start written for a_end in the second comparison
Overlaps_Typo(a_start, a_end, b_start, b_end) ==
    DtLess(a_start, b_end) /\ DtLess(b_start, a_start)

\* _overlaps with <= for <: touching intervals overlap
Overlaps_Closed(a_start, a_end, b_start, b_end) ==
    DtLeq(a_start, b_end) /\ DtLeq(b_start, a_end)

\* _overlaps
Overlaps(a_start, a_end, b_start, b_end) ==
    DtLess(a_start, b_end) /\ DtLess(b_start, a_end)

\* _get_weekday; the caller has made sure that date_str parses
GetWeekday(date_str) == WeekdayNames[((StrpDate(date_str).day + 6) % 7) + 1]

\* The entries of a sequence that satisfy Test, in order.
RECURSIVE SelectEntries(_, _, _)
SelectEntries(entries, date_str, i) ==
    IF i > Len(entries) THEN << >>
    ELSE (IF entries[i].date = date_str
          THEN << <<ParseTime(date_str, entries[i].start_time),
                    ParseTime(date_str, entries[i].end_time)>> >>
          ELSE << >>)
         \o SelectEntries(entries, date_str, i + 1)

\* RUNTIME_BOOKINGS.get(date_str, [])
RuntimeGet(runtime, date_str) ==
    IF date_str \in DOMAIN runtime THEN runtime[date_str] ELSE << >>

\* _collect_existing_bookings: the file's bookings whose date string equals
\* date_str, then the runtime bookings kept under the key date_str.
CollectExistingBookings(schedule_data, runtime, date_str) ==
    LET entries == RuntimeGet(runtime, date_str)
    IN  SelectEntries(schedule_data.existing_bookings, date_str, 1)
          \o [i \in 1..Len(entries) |->
                <<ParseTime(date_str, entries[i][1]),
                  ParseTime(date_str, entries[i][2])>>]

\* A conflict check that compares the candidate with each booking for
\* equality instead of overlap.
HasConflict_SameSlotOnly(candidate_start, candidate_end, existing) ==
    \E i \in 1..Len(existing) :
        candidate_start = existing[i][1] /\ candidate_end = existing[i][2]

\* A conflict check that finds a conflict as soon as the date has a booking.
HasConflict_AnyBooking(candidate_start, candidate_end, existing) ==
    existing # << >>

\* any(_overlaps(candidate_start, candidate_end, b_start, b_end) for ...)
HasConflict(candidate_start, candidate_end, existing) ==
    \E i \in 1..Len(existing) :
        Overlaps(candidate_start, candidate_end, existing[i][1], existing[i][2])

\* What _generate_slots gives: the list it returns, or the OverflowError
\* that line 92 raises, which no caller catches.
Returned(slots) == [err |-> FALSE, slots |-> slots]
Raised == [err |-> TRUE, slots |-> << >>]

\* Slot(start_time=..., end_time=..., available=not has_conflict)
NewSlot(candidate_start, candidate_end, existing) ==
    [start_time |-> FormatTime(candidate_start),
     end_time |-> FormatTime(candidate_end),
     available |-> ~HasConflict(candidate_start, candidate_end, existing)]

\* The loop with `while cursor < day_end`: the last slot may end after closing.
RECURSIVE SlotLoop_PastClosing(_, _, _, _, _)
SlotLoop_PastClosing(cursor, day_end, duration_min, existing, slots) ==
    IF ~DtLess(cursor, day_end) THEN Returned(slots)
    ELSE IF AddMinutes(cursor, duration_min).err THEN Raised
    ELSE SlotLoop_PastClosing(AddMinutes(cursor, duration_min), day_end,
                              duration_min, existing,
                              Append(slots,
                                     NewSlot(cursor, AddMinutes(cursor, duration_min),
                                             existing)))

\* The while loop of _generate_slots, `slots` being the list so far: the
\* sum in the loop's test raises when it passes the last day.
RECURSIVE SlotLoop(_, _, _, _, _)
SlotLoop(cursor, day_end, duration_min, existing, slots) ==
    IF AddMinutes(cursor, duration_min).err THEN Raised
    ELSE IF ~DtLeq(AddMinutes(cursor, duration_min), day_end) THEN Returned(slots)
    ELSE SlotLoop(AddMinutes(cursor, duration_min), day_end, duration_min, existing,
                  Append(slots,
                         NewSlot(cursor, AddMinutes(cursor, duration_min), existing)))

\* _generate_slots with working_hours.get(weekday, <the hours of an open
\* day>): a closed day gets a window.
GenerateSlots_DefaultHours(schedule_data, runtime, date_str, appointment_type) ==
    LET weekday == GetWeekday(date_str)
        hours == IF weekday \in DOMAIN schedule_data.working_hours
                 THEN schedule_data.working_hours[weekday]
                 ELSE schedule_data.working_hours[
                          CHOOSE w \in DOMAIN schedule_data.working_hours : TRUE]
    IN  SlotLoop(ParseTime(date_str, hours.start), ParseTime(date_str, hours.end),
                 APPOINTMENT_DURATIONS_MIN[appointment_type],
                 CollectExistingBookings(schedule_data, runtime, date_str), << >>)

\* _generate_slots with a check of the bookings it collects: when two of
\* them overlap it returns no slot.
GenerateSlots_RejectDoubled(schedule_data, runtime, date_str, appointment_type) ==
    LET weekday == GetWeekday(date_str)
        existing == CollectExistingBookings(schedule_data, runtime, date_str)
    IN  IF weekday \notin DOMAIN schedule_data.working_hours THEN Returned(<< >>)
        ELSE IF \E i, j \in 1..Len(existing) :
                   i < j /\ Overlaps(existing[i][1], existing[i][2],
                                     existing[j][1], existing[j][2])
        THEN Returned(<< >>)
        ELSE SlotLoop(ParseTime(date_str, schedule_data.working_hours[weekday].start),
                      ParseTime(date_str, schedule_data.working_hours[weekday].end),
                      APPOINTMENT_DURATIONS_MIN[appointment_type], existing, << >>)

\* _generate_slots, the schedule file loaded and date_str a date that parses
GenerateSlots(schedule_data, runtime, date_str, appointment_type) ==
    LET weekday == GetWeekday(date_str)
    IN  IF weekday \notin DOMAIN schedule_data.working_hours THEN Returned(<< >>)
        ELSE LET hours == schedule_data.working_hours[weekday]
                 duration_min == APPOINTMENT_DURATIONS_MIN[appointment_type]
                 day_start == ParseTime(date_str, hours.start)
                 day_end == ParseTime(date_str, hours.end)
                 existing == CollectExistingBookings(schedule_data, runtime, date_str)
             IN  SlotLoop(day_start, day_end, duration_min, existing, << >>)

----------------------------------------------------------------------------
(* The two handlers, as functions of what they read *)

NoText == << >>

\* HTTPException(status_code, detail) and FastAPI's own rejections.
Failure(status_code, detail) ==
    [status |-> status_code, detail |-> detail, booking |-> "failed",
     date |-> NoText, start_time |-> NoText, end_time |-> NoText,
     available_slots |-> << >>,
     booking_id |-> NoText, confirmation_code |-> NoText]

\* The engines that may check the pattern of a Query parameter, one per
\* installation: the regex crate of Rust under pydantic 2, the re module of
\* Python under pydantic 1.  The repository pins neither.
PatternEngines == {"regex", "re"}

\* The decimal digits that the regex crate knows beyond those of Python
\* 3.11 (Unicode 15 and 16), ten to a script.
MoreDigitRows ==
    << <<"U+10D40", "U+10D41", "U+10D42", "U+10D43", "U+10D44",
         "U+10D45", "U+10D46", "U+10D47", "U+10D48", "U+10D49">>,
       <<"U+116D0", "U+116D1", "U+116D2", "U+116D3", "U+116D4",
         "U+116D5", "U+116D6", "U+116D7", "U+116D8", "U+116D9">>,
       <<"U+116DA", "U+116DB", "U+116DC", "U+116DD", "U+116DE",
         "U+116DF", "U+116E0", "U+116E1", "U+116E2", "U+116E3">>,
       <<"U+11BF0", "U+11BF1", "U+11BF2", "U+11BF3", "U+11BF4",
         "U+11BF5", "U+11BF6", "U+11BF7", "U+11BF8", "U+11BF9">>,
       <<"U+11F50", "U+11F51", "U+11F52", "U+11F53", "U+11F54",
         "U+11F55", "U+11F56", "U+11F57", "U+11F58", "U+11F59">>,
       <<"U+16130", "U+16131", "U+16132", "U+16133", "U+16134",
         "U+16135", "U+16136", "U+16137", "U+16138", "U+16139">>,
       <<"U+16D70", "U+16D71", "U+16D72", "U+16D73", "U+16D74",
         "U+16D75", "U+16D76", "U+16D77", "U+16D78", "U+16D79">>,
       <<"U+1CCF0", "U+1CCF1", "U+1CCF2", "U+1CCF3", "U+1CCF4",
         "U+1CCF5", "U+1CCF6", "U+1CCF7", "U+1CCF8", "U+1CCF9">>,
       <<"U+1E4F0", "U+1E4F1", "U+1E4F2", "U+1E4F3", "U+1E4F4",
         "U+1E4F5", "U+1E4F6", "U+1E4F7", "U+1E4F8", "U+1E4F9">>,
       <<"U+1E5F1", "U+1E5F2", "U+1E5F3", "U+1E5F4", "U+1E5F5",
         "U+1E5F6", "U+1E5F7", "U+1E5F8", "U+1E5F9", "U+1E5FA">> >>

\* \d of the regex crate
RegexDigitChars ==
    DigitChars \cup { MoreDigitRows[r][i] : r \in 1..Len(MoreDigitRows), i \in 1..10 }

\* \d{4}-\d{2}-\d{2} over the first ten characters, \d being of the class D
DateShape(date, D) ==
    /\ Len(date) >= 10
    /\ \A i \in {1, 2, 3, 4, 6, 7, 9, 10} : date[i] \in D
    /\ date[5] = "-" /\ date[8] = "-"

\* Query(..., pattern=r"^\d{4}-\d{2}-\d{2}$"): $ of the regex crate is the
\* end of the text, $ of re also the place before a newline that ends it.
MatchesDatePattern(engine, date) ==
    IF engine = "regex"
    THEN DateShape(date, RegexDigitChars) /\ Len(date) = 10
    ELSE /\ DateShape(date, DigitChars)
         /\ Len(date) = 10 \/ (Len(date) = 11 /\ date[11] = "\n")

\* get_availability from line 123 on, `generated` being what _generate_slots
\* gave: AvailabilityResponse(date=date, available_slots=slots), or the 500
\* of the server when it raised.
AvailabilityResponse(date, generated) ==
    IF generated.err
    THEN Failure(500, "Internal Server Error")
    ELSE [status |-> 200, detail |-> "", booking |-> "",
          date |-> date, start_time |-> NoText, end_time |-> NoText,
          available_slots |-> generated.slots,
          booking_id |-> NoText, confirmation_code |-> NoText]

\* get_availability
GetAvailabilityResponse(engine, schedule_data, runtime, date, appointment_type) ==
    IF ~MatchesDatePattern(engine, date)
    THEN Failure(422, "string_pattern_mismatch")
    ELSE IF appointment_type \notin DOMAIN APPOINTMENT_DURATIONS_MIN
    THEN Failure(400, "Invalid appointment_type")
    ELSE IF StrpDate(date).err
    THEN Failure(400, "Invalid date format; expected YYYY-MM-DD")
    ELSE IF ~schedule_data.exists
    THEN Failure(500, "Schedule data not found")
    ELSE AvailabilityResponse(date, GenerateSlots(schedule_data, runtime, date,
                                                  appointment_type))

\* book_appointment up to the first lines of _generate_slots, where the
\* schedule file is loaded and the weekday taken: a response when the request
\* is rejected before any booking is read, else status 0.  Nothing catches
\* the OverflowError of line 138 and the ValueError of line 78: the server
\* answers them with 500.
BookRejection(schedule_data, request) ==
    IF request.appointment_type \notin AppointmentTypes
    THEN Failure(422, "literal_error")
    ELSE IF request.appointment_type \notin DOMAIN APPOINTMENT_DURATIONS_MIN
    THEN Failure(400, "Invalid appointment_type")
    ELSE IF ParseTime(request.date, request.start_time).err
    THEN Failure(400, "Invalid date/time format")
    ELSE IF AddMinutes(ParseTime(request.date, request.start_time),
                       APPOINTMENT_DURATIONS_MIN[request.appointment_type]).err
    THEN Failure(500, "Internal Server Error")
    ELSE IF ~schedule_data.exists
    THEN Failure(500, "Schedule data not found")
    ELSE IF StrpDate(request.date).err
    THEN Failure(500, "Internal Server Error")
    ELSE Failure(0, "")

\* key = (request.start_time, end_dt.strftime("%H:%M"))
BookKey(request) ==
    LET start_dt == ParseTime(request.date, request.start_time)
        duration_min == APPOINTMENT_DURATIONS_MIN[request.appointment_type]
        end_dt == AddMinutes(start_dt, duration_min)
    IN  <<request.start_time, FormatTime(end_dt)>>

\* slot_map = {(s.start_time, s.end_time): s for s in available_slots}: the
\* places of the slots with this key (the dict keeps the last of them).
SlotPlaces(available_slots, key) ==
    { i \in 1..Len(available_slots) :
        <<available_slots[i].start_time, available_slots[i].end_time>> = key }

SlotMapGet(available_slots, key) ==
    LET P == SlotPlaces(available_slots, key)
    IN  available_slots[CHOOSE i \in P : \A j \in P : j <= i]

\* Lines 143 to 146 and the response: the two refusals of the lookup of key
\* in slot_map, else the confirmation, still without its identifiers.
SlotLookup(request, available_slots, key) ==
    IF SlotPlaces(available_slots, key) = {}
    THEN Failure(400, "Requested time is outside working hours")
    ELSE IF ~SlotMapGet(available_slots, key).available
    THEN Failure(409, "Requested time is no longer available")
    ELSE [status |-> 200, detail |-> "", booking |-> "confirmed",
          date |-> request.date, start_time |-> request.start_time,
          end_time |-> key[2], available_slots |-> << >>,
          booking_id |-> NoText, confirmation_code |-> NoText]

\* book_appointment from the slot lookup on: the response, given the slots
\* that _generate_slots returned.
BookResponse(request, available_slots) ==
    SlotLookup(request, available_slots, BookKey(request))

\* RUNTIME_BOOKINGS.setdefault(request.date, []), before anything is appended
SetDefault(runtime, date) ==
    [d \in DOMAIN runtime \cup {date} |-> RuntimeGet(runtime, d)]

\* An append that stores the start first and the end later: the list holds
\* an entry whose end is still the start.
RuntimeAppend_StartFirst(runtime, date, key) ==
    [d \in DOMAIN runtime \cup {date} |->
        IF d = date THEN Append(RuntimeGet(runtime, date), <<key[1], key[1]>>)
        ELSE runtime[d]]

\* An append to the list of every date the store has, not of request.date
\* alone.
RuntimeAppend_AllDates(runtime, date, key) ==
    [d \in DOMAIN runtime \cup {date} |-> Append(RuntimeGet(runtime, d), key)]

\* RUNTIME_BOOKINGS[request.date] = [(key[0], key[1])]: the new entry takes
\* the place of the list.
RuntimeAppend_Replace(runtime, date, key) ==
    [d \in DOMAIN runtime \cup {date} |->
        IF d = date THEN <<key>> ELSE runtime[d]]

\* RUNTIME_BOOKINGS.setdefault(request.date, []).append((key[0], key[1]))
RuntimeAppend(runtime, date, key) ==
    [d \in DOMAIN runtime \cup {date} |->
        IF d = date THEN Append(RuntimeGet(runtime, date), key) ELSE runtime[d]]

\* The append moved before the two checks: every request that reaches the
\* slot lookup is stored.
BookCommit_BeforeChecks(runtime, request, response) ==
    IF response.status \in {200, 409}
         \/ response.detail = "Requested time is outside working hours"
    THEN RuntimeAppend(runtime, request.date, BookKey(request))
    ELSE runtime

\* The append moved before the availability check: a refused request is
\* stored as well.
BookCommit_OnConflict(runtime, request, response) ==
    IF response.status \in {200, 409}
    THEN RuntimeAppend(runtime, request.date, BookKey(request))
    ELSE runtime

\* The store after book_appointment has answered with `response`.
BookCommit(runtime, request, response) ==
    IF response.status = 200
    THEN RuntimeAppend(runtime, request.date, BookKey(request))
    ELSE runtime

\* str.upper() on the characters a uuid's text is made of
UpperTable ==
    ("a" :> "A") @@ ("b" :> "B") @@ ("c" :> "C") @@ ("d" :> "D") @@ ("e" :> "E")
      @@ ("f" :> "F")

Upper(text) ==
    [i \in 1..Len(text) |->
        IF text[i] \in DOMAIN UpperTable THEN UpperTable[text[i]] ELSE text[i]]

\* f"APPT-{datetime.now().strftime('%Y%m%d')}-{str(uuid.uuid4())[:8].upper()}"
BookingId(today, uuid_text) ==
    <<"A", "P", "P", "T", "-">> \o today \o <<"-">> \o Upper(SubSeq(uuid_text, 1, 8))

\* str(uuid.uuid4())[:6].upper()
ConfirmationCode(uuid_text) == Upper(SubSeq(uuid_text, 1, 6))

\* The BookingResponse with its two identifiers, made from two uuid4 draws;
\* an error response carries none.
Confirmation(response, today, uuid_a, uuid_b) ==
    IF response.status = 200
    THEN [response EXCEPT !.booking_id = BookingId(today, uuid_a),
                          !.confirmation_code = ConfirmationCode(uuid_b)]
    ELSE response

----------------------------------------------------------------------------
(* Inputs *)

\* What str(uuid.uuid4()) may be, up to its first hyphen (eight hexadecimal
\* characters, all that the handler reads of it).  uuid4 is random: every
\* call may return any of them.
Uuid4Texts ==
    { <<"1", "a", "2", "b", "3", "c", "4", "d">>,
      <<"f", "0", "7", "7", "c", "2", "5", "b">> }

\* datetime.now().strftime('%Y%m%d') on the day of the run
Today == <<"2", "0", "2", "4", "0", "1", "1", "0">>

\* Request dates: a Monday, the same Monday written without the zero, a
\* Sunday, and a date that does not parse.
D_MON == <<"2", "0", "2", "4", "-", "0", "1", "-", "1", "5">>
D_MON_SHORT == <<"2", "0", "2", "4", "-", "1", "-", "1", "5">>
D_SUN == <<"2", "0", "2", "4", "-", "0", "1", "-", "1", "4">>
D_BAD == <<"2", "0", "2", "4", "-", "1", "3", "-", "0", "1">>
\* The Tuesday after the Monday.
D_TUE == <<"2", "0", "2", "4", "-", "0", "1", "-", "1", "6">>
\* The Monday with a newline after it, and written with the digits of Kawi
\* (Unicode 15), which Python 3.11 does not know as digits.
D_MON_NL == D_MON \o <<"\n">>
D_MON_KAWI ==
    <<"U+11F52", "U+11F50", "U+11F52", "U+11F54", "-", "0", "1", "-", "1", "5">>
\* The last day a datetime holds, a Friday.
D_LAST == <<"9", "9", "9", "9", "-", "1", "2", "-", "3", "1">>

T_0845 == <<"0", "8", ":", "4", "5">>
T_0900 == <<"0", "9", ":", "0", "0">>
T_0910 == <<"0", "9", ":", "1", "0">>
T_0930 == <<"0", "9", ":", "3", "0">>
T_0945 == <<"0", "9", ":", "4", "5">>
T_0955 == <<"0", "9", ":", "5", "5">>
T_1000 == <<"1", "0", ":", "0", "0">>
T_1010 == <<"1", "0", ":", "1", "0">>
T_2300 == <<"2", "3", ":", "0", "0">>
T_2330 == <<"2", "3", ":", "3", "0">>
T_900 == <<"9", ":", "0", "0">>
\* 9:00 in the digits of NKO.
T_NKO == <<"U+07C9", ":", "0", "U+07C0">>
T_BAD == <<"9", "a", "m">>

\* What _load_schedule returns: the content of data/doctor_schedule.json.
\* ScheduleOpen is the schedule of the specification's example.  In
\* ScheduleBooked the window is no multiple of any duration, one booking
\* from the file lies across the Monday grids and one on the closed Sunday.
\* In ScheduleShort the window opens off the quarter hour and is shorter
\* than two of the durations.  `exists` tells whether the file is there.
ScheduleOpen ==
    [exists |-> TRUE,
     working_hours |-> [monday |-> [start |-> T_0900, end |-> T_1000]],
     existing_bookings |-> << >>]

ScheduleBooked ==
    [exists |-> TRUE,
     working_hours |-> [monday |-> [start |-> T_0900, end |-> T_1010],
                        tuesday |-> [start |-> T_0845, end |-> T_0945]],
     existing_bookings |->
        << [date |-> D_MON, start_time |-> T_0945, end_time |-> T_0955],
           [date |-> D_SUN, start_time |-> T_0900, end_time |-> T_0930] >>]

ScheduleShort ==
    [exists |-> TRUE,
     working_hours |-> [monday |-> [start |-> T_0910, end |-> T_0945]],
     existing_bookings |-> << >>]

\* An evening window on Fridays, the last day of the calendar among them.
ScheduleLate ==
    [exists |-> TRUE,
     working_hours |-> [friday |-> [start |-> T_2300, end |-> T_2330]],
     existing_bookings |-> << >>]

\* data/doctor_schedule.json does not exist: _load_schedule raises.
ScheduleMissing ==
    [exists |-> FALSE, working_hours |-> << >>, existing_bookings |-> << >>]

Schedules ==
    {ScheduleOpen, ScheduleBooked, ScheduleShort, ScheduleLate, ScheduleMissing}

\* The dates, requests and queries of runs over two open days.
TwoDays == {D_MON, D_TUE}

DayRequests ==
    [appointment_type : {"consultation", "followup"}, date : TwoDays,
     start_time : {T_0845, T_0900, T_0930}]

DayQueries ==
    [appointment_type : {"consultation", "followup"}, date : TwoDays \cup {D_SUN},
     start_time : {NoText}]

\* Bookings that an edit of the schedule file adds to existing_bookings.
FileEdits ==
    { [date |-> D_MON, start_time |-> T_0900, end_time |-> T_0930],
      [date |-> D_MON, start_time |-> T_0930, end_time |-> T_0945] }

Dates == {D_MON, D_MON_SHORT, D_SUN, D_BAD, D_LAST}
\* The dates of the availability queries.
QueryDates == Dates \cup {D_MON_NL, D_MON_KAWI}
StartTimes == {T_0845, T_0900, T_0910, T_0930, T_900, T_NKO, T_BAD, T_2300}
TypeInputs == AppointmentTypes \cup {"checkup"}

\* The book requests of the serial runs: every known type on every date
\* and start time that parse, and one request each with an unknown type,
\* with a date that does not parse alone, and with a start time that does
\* not parse.
BookingRequests ==
    [appointment_type : AppointmentTypes, date : Dates \ {D_BAD},
     start_time : StartTimes \ {T_BAD}]
      \cup [appointment_type : {"checkup"}, date : {D_MON}, start_time : {T_0900}]
      \cup [appointment_type : {"consultation"},
            date : {D_BAD, D_MON_NL, D_MON_KAWI}, start_time : {T_0900}]
      \cup [appointment_type : {"consultation"}, date : {D_MON},
            start_time : {T_BAD}]

\* The availability queries of the serial runs.
AvailabilityQueries ==
    [appointment_type : AppointmentTypes, date : QueryDates, start_time : {NoText}]
      \cup [appointment_type : {"checkup"}, date : {D_MON}, start_time : {NoText}]

\* The requests of the concurrent callers.
RacingRequests ==
    [appointment_type : {"consultation", "followup"}, date : {D_MON},
     start_time : {T_0900, T_0930}]

\* The requests of the callers that book while others query.
BesideRequests ==
    [appointment_type : {"consultation"}, date : {D_MON},
     start_time : {T_0900, T_0930}]

\* The queries of the callers that query while others book: the grid of the
\* short type, two slots of which a booking takes.
BesideQueries ==
    [appointment_type : {"followup"}, date : {D_MON}, start_time : {NoText}]

\* The availability queries of the concurrent callers.
RacingQueries ==
    [appointment_type : {"consultation", "followup"}, date : {D_MON},
     start_time : {NoText}]

\* Number of concurrent callers, and of calls they make in all.
NThreads == 2
MaxCalls == 3
\* Number of bookings the store holds in a serial run.
MaxBookings == 3

Threads == 1..NThreads

----------------------------------------------------------------------------
(* State *)

VARIABLES
    pattern_engine,    \* the engine that checks the pattern of the date query
    schedule,          \* the content of the schedule file
    RUNTIME_BOOKINGS,  \* date string -> list of (start string, end string)
    last,              \* the last call served in a serial run, with its response
    pc,                \* per caller: "idle", "generated" (slots read, nothing
                       \* written), "found" (slot found free, list there) or
                       \* "querying" (a query that has read no booking yet)
    request,           \* per caller: the request it is serving or served last
    available_slots,   \* per caller: what _generate_slots returned to it
    response,          \* per caller: the response to its last call
    calls              \* calls begun by the concurrent callers

vars == <<pattern_engine, schedule, RUNTIME_BOOKINGS, last, pc, request, available_slots,
          response, calls>>

threadVars == <<pc, request, available_slots, response, calls>>

NoRequest == [appointment_type |-> "", date |-> NoText, start_time |-> NoText]

RECURSIVE SumLen(_, _)
SumLen(runtime, D) ==
    IF D = {} THEN 0
    ELSE LET d == CHOOSE x \in D : TRUE
         IN  Len(runtime[d]) + SumLen(runtime, D \ {d})

\* Number of runtime bookings.
Committed(runtime) == SumLen(runtime, DOMAIN runtime)

\* The uuid4 draws of a call that ends with `answer`: one pair for lines
\* 150 and 151, which only a confirmed booking reaches.
UuidDraws(answer) ==
    IF answer.status = 200 THEN Uuid4Texts \X Uuid4Texts ELSE {<<NoText, NoText>>}

Init ==
    /\ pattern_engine \in PatternEngines
    /\ schedule \in Schedules
    /\ RUNTIME_BOOKINGS = << >>
    /\ last = [op |-> "none", request |-> NoRequest, response |-> Failure(0, "")]
    /\ pc = [t \in Threads |-> "idle"]
    /\ request = [t \in Threads |-> NoRequest]
    /\ available_slots = [t \in Threads |-> << >>]
    /\ response = [t \in Threads |-> Failure(0, "")]
    /\ calls = 0

----------------------------------------------------------------------------
(* Serial runs: one call at a time.  A step runs a handler from its first   *)
(* line to its response, which `last` holds until it is sent.              *)

NoCall == [op |-> "none", request |-> NoRequest, response |-> Failure(0, "")]

\* GET /availability
GetAvailability(date, appointment_type) ==
    /\ last.op = "none"
    /\ last' = [op |-> "availability",
                request |-> [appointment_type |-> appointment_type,
                             date |-> date, start_time |-> NoText],
                response |-> GetAvailabilityResponse(pattern_engine, schedule, RUNTIME_BOOKINGS,
                                                     date, appointment_type)]
    /\ UNCHANGED <<pattern_engine, schedule, RUNTIME_BOOKINGS, threadVars>>

\* book_appointment, whole: the response to `req` in a state
BookOutcome(req, rejection, generated) ==
    IF rejection.status # 0 THEN rejection
    ELSE IF generated.err THEN Failure(500, "Internal Server Error")
    ELSE BookResponse(req, generated.slots)

BookAnswer(schedule_data, runtime, req) ==
    BookOutcome(req, BookRejection(schedule_data, req),
                GenerateSlots(schedule_data, runtime, req.date, req.appointment_type))

\* book_appointment answers `resp` to `req`: the append when it confirms,
\* the two identifiers, the response.
BookServe(req, resp) ==
    /\ resp.status = 200 => Committed(RUNTIME_BOOKINGS) < MaxBookings
    /\ RUNTIME_BOOKINGS' = BookCommit(RUNTIME_BOOKINGS, req, resp)
    /\ \E draw \in UuidDraws(resp) :
          last' = [op |-> "book", request |-> req,
                   response |-> Confirmation(resp, Today, draw[1], draw[2])]

\* POST /book
BookAppointment(req) ==
    /\ last.op = "none"
    /\ BookServe(req, BookAnswer(schedule, RUNTIME_BOOKINGS, req))
    /\ UNCHANGED <<pattern_engine, schedule, threadVars>>

\* The response is sent; the next call may come.
Return ==
    /\ last.op # "none"
    /\ last' = NoCall
    /\ UNCHANGED <<pattern_engine, schedule, RUNTIME_BOOKINGS, threadVars>>

SerialNext ==
    \/ \E req \in AvailabilityQueries :
          GetAvailability(req.date, req.appointment_type)
    \/ \E req \in BookingRequests : BookAppointment(req)
    \/ Return

SerialSpec == Init /\ [][SerialNext]_vars

\* Serial runs with calls for a Monday and the Tuesday after it.
DaysNext ==
    \/ \E req \in DayQueries :
          GetAvailability(req.date, req.appointment_type)
    \/ \E req \in DayRequests : BookAppointment(req)
    \/ Return

DaysSpec == Init /\ [][DaysNext]_vars

----------------------------------------------------------------------------
(* Serial runs between which the schedule file is edited.  _generate_slots  *)
(* loads the file in every call, so the next call reads the edited file.    *)

\* The file on disk gets one more entry in existing_bookings.
AddFileBooking(entry) ==
    /\ last.op = "none"
    /\ schedule.exists
    /\ \A k \in 1..Len(schedule.existing_bookings) :
          schedule.existing_bookings[k] # entry
    /\ schedule' = [schedule EXCEPT
                       !.existing_bookings = Append(@, entry)]
    /\ UNCHANGED <<pattern_engine, RUNTIME_BOOKINGS, last, threadVars>>

ConfigNext ==
    \/ \E req \in RacingQueries :
          GetAvailability(req.date, req.appointment_type)
    \/ \E req \in RacingRequests : BookAppointment(req)
    \/ Return
    \/ \E entry \in FileEdits : AddFileBooking(entry)

ConfigSpec == Init /\ [][ConfigNext]_vars

----------------------------------------------------------------------------
(* Concurrent callers: FastAPI runs the two handlers, plain functions, on   *)
(* the threads of a pool, and book_appointment takes no lock.  A call reads *)
(* the bookings in _generate_slots, looks its slot up and takes the list of *)
(* its date in a later step, and appends to that list in a third.  A query  *)
(* reads the list of its date once, in _collect_existing_bookings.          *)

\* Line 140 has been reached with `rejection`, and _generate_slots gave
\* `generated`: the call ends with an error, or holds the slots.
BookHold(t, rejection, generated) ==
    IF rejection.status # 0
    THEN /\ response' = [response EXCEPT ![t] = rejection]
         /\ UNCHANGED <<pc, available_slots>>
    ELSE IF generated.err
    THEN /\ response' = [response EXCEPT
                            ![t] = Failure(500, "Internal Server Error")]
         /\ UNCHANGED <<pc, available_slots>>
    ELSE /\ pc' = [pc EXCEPT ![t] = "generated"]
         /\ available_slots' = [available_slots EXCEPT ![t] = generated.slots]
         /\ response' = [response EXCEPT ![t] = Failure(0, "")]

\* book_appointment up to and with available_slots = _generate_slots(...)
BookGenerate(t, req) ==
    /\ pc[t] = "idle"
    /\ calls < MaxCalls
    /\ calls' = calls + 1
    /\ request' = [request EXCEPT ![t] = req]
    /\ BookHold(t, BookRejection(schedule, req),
                GenerateSlots(schedule, RUNTIME_BOOKINGS, req.date,
                              req.appointment_type))
    /\ UNCHANGED <<pattern_engine, schedule, RUNTIME_BOOKINGS, last>>

\* The lookup has given `resp`: an error ends the call, else the list of the
\* date is taken.
BookTake(t, resp) ==
    IF resp.status # 200
    THEN /\ response' = [response EXCEPT ![t] = resp]
         /\ pc' = [pc EXCEPT ![t] = "idle"]
         /\ available_slots' = [available_slots EXCEPT ![t] = << >>]
         /\ UNCHANGED RUNTIME_BOOKINGS
    ELSE /\ RUNTIME_BOOKINGS' = SetDefault(RUNTIME_BOOKINGS, request[t].date)
         /\ pc' = [pc EXCEPT ![t] = "found"]
         /\ UNCHANGED <<response, available_slots>>

\* book_appointment from slot_map to setdefault: the lookup with its two
\* errors, then the list of the date is taken from RUNTIME_BOOKINGS, an empty
\* one being put there if the date has none.
BookLookup(t) ==
    /\ pc[t] = "generated"
    /\ BookTake(t, BookResponse(request[t], available_slots[t]))
    /\ UNCHANGED <<pattern_engine, schedule, last, request, calls>>

\* The append of the interval of the confirmation `resp`, the identifiers,
\* the response.
BookAppend(t, resp) ==
    /\ RUNTIME_BOOKINGS' = BookCommit(RUNTIME_BOOKINGS, request[t], resp)
    /\ \E draw \in UuidDraws(resp) :
          response' = [response EXCEPT
                          ![t] = Confirmation(resp, Today, draw[1], draw[2])]

\* book_appointment from the append on: the append, the identifiers, the
\* response
BookFinish(t) ==
    /\ pc[t] = "found"
    /\ BookAppend(t, BookResponse(request[t], available_slots[t]))
    /\ pc' = [pc EXCEPT ![t] = "idle"]
    /\ available_slots' = [available_slots EXCEPT ![t] = << >>]
    /\ UNCHANGED <<pattern_engine, schedule, last, request, calls>>

\* The checks of a query have given `answer`: an error ends the call.
QueryChecked(t, answer) ==
    IF answer.status # 200
    THEN /\ response' = [response EXCEPT ![t] = answer]
         /\ UNCHANGED pc
    ELSE /\ pc' = [pc EXCEPT ![t] = "querying"]
         /\ response' = [response EXCEPT ![t] = Failure(0, "")]

\* get_availability on a thread of the pool, up to the load of the schedule
\* in _generate_slots: the checks that read no booking.
QueryBegin(t, req) ==
    /\ pc[t] = "idle"
    /\ calls < MaxCalls
    /\ calls' = calls + 1
    /\ request' = [request EXCEPT ![t] = req]
    /\ QueryChecked(t, GetAvailabilityResponse(pattern_engine, schedule, << >>,
                                               req.date, req.appointment_type))
    /\ UNCHANGED <<pattern_engine, schedule, RUNTIME_BOOKINGS, last,
                   available_slots>>

\* get_availability from _collect_existing_bookings on.  It reads
\* RUNTIME_BOOKINGS once, the list of its date at line 68, whose entries it
\* then walks: what it sees is that list as it is at one moment.
QueryCollect(t) ==
    /\ pc[t] = "querying"
    /\ response' = [response EXCEPT
                       ![t] = GetAvailabilityResponse(pattern_engine, schedule, RUNTIME_BOOKINGS,
                                                      request[t].date,
                                                      request[t].appointment_type)]
    /\ pc' = [pc EXCEPT ![t] = "idle"]
    /\ UNCHANGED <<pattern_engine, schedule, RUNTIME_BOOKINGS, last, request, available_slots,
                   calls>>

Next ==
    \/ \E t \in Threads, req \in RacingRequests : BookGenerate(t, req)
    \/ \E t \in Threads : BookLookup(t)
    \/ \E t \in Threads : BookFinish(t)
    \/ \E t \in Threads, req \in RacingQueries : QueryBegin(t, req)
    \/ \E t \in Threads : QueryCollect(t)

Spec == Init /\ [][Next]_vars

\* The same callers, the bookings all of one type.
QueryNext ==
    \/ \E t \in Threads, req \in BesideRequests : BookGenerate(t, req)
    \/ \E t \in Threads : BookLookup(t)
    \/ \E t \in Threads : BookFinish(t)
    \/ \E t \in Threads, req \in BesideQueries : QueryBegin(t, req)
    \/ \E t \in Threads : QueryCollect(t)

QuerySpec == Init /\ [][QueryNext]_vars

----------------------------------------------------------------------------
(* Concurrent bookings: C1, C2, C3 *)

\* How often `key` stands in the runtime list of `date`.
Occurrences(runtime, date, key) ==
    Cardinality({ i \in 1..Len(RuntimeGet(runtime, date)) :
                    RuntimeGet(runtime, date)[i] = key })

\* Every caller has made one call, all of them the request req, and all
\* have answered.
AllBooked(req) ==
    /\ calls = NThreads
    /\ \A t \in Threads : pc[t] = "idle" /\ request[t] = req

\* C1: when every one of the N callers books the same slot, available before
\* the first of them, then whatever the interleaving exactly one is confirmed,
\* the others get 409, and the runtime list of the date holds the slot once.
C1_ExactlyOneWins ==
    \A req \in RacingRequests :
        (AllBooked(req) /\ BookAnswer(schedule, << >>, req).status = 200)
        => /\ Cardinality({ t \in Threads : response[t].status = 200 }) = 1
           /\ \A t \in Threads : response[t].status \in {200, 409}
           /\ Occurrences(RUNTIME_BOOKINGS, req.date, BookKey(req)) = 1

\* The committed intervals of a date: those of the file, then the runtime ones.
CommittedIntervals(date) ==
    CollectExistingBookings(schedule, RUNTIME_BOOKINGS, date)

NoOverlapOn(date) ==
    \A i, j \in 1..Len(CommittedIntervals(date)) :
        i < j => ~Overlaps(CommittedIntervals(date)[i][1], CommittedIntervals(date)[i][2],
                           CommittedIntervals(date)[j][1], CommittedIntervals(date)[j][2])

\* C2: in every reachable state no two committed intervals of one date (from
\* the file or booked at runtime) overlap.
C2_NoOverlap == \A date \in Dates : NoOverlapOn(date)

\* C3: while a book call stands between its read of the bookings and its own
\* append, no other call appends to the list of its date.
C3_CriticalSection ==
    [][\A t \in Threads :
          (pc[t] \in {"generated", "found"} /\ pc'[t] \in {"generated", "found"})
          => RuntimeGet(RUNTIME_BOOKINGS', request[t].date)
               = RuntimeGet(RUNTIME_BOOKINGS, request[t].date)]_vars

----------------------------------------------------------------------------
(* Serial bookings: C4, C5, C6 *)

OutsideHours == "Requested time is outside working hours"
NoLongerAvailable == "Requested time is no longer available"

\* A step of a serial run that is one whole call of book_appointment.
IsBookStep == last.op = "none" /\ last'.op = "book"

\* The slots generated now for the date and type of a request that
\* book_appointment does not reject before it generates them: none when the
\* generation raises.
SlotsFor(req) ==
    GenerateSlots(schedule, RUNTIME_BOOKINGS, req.date, req.appointment_type).slots

\* The request asks for a slot that an availability answer shows as free now:
\* its start_time is the start_time of a generated slot with available true.
Offered(req) ==
    /\ BookRejection(schedule, req).status = 0
    /\ \E i \in 1..Len(SlotsFor(req)) :
          /\ SlotsFor(req)[i].start_time = req.start_time
          /\ SlotsFor(req)[i].available

\* The answer that the request `req` gets when the bookings are `runtime`.
AnswerIn(runtime, req) == BookAnswer(schedule, runtime, req)

\* C4: a book request for a slot that is offered now is confirmed and echoes
\* the requested start time; the same request, made again right after a
\* confirmation, fails with 409 "no longer available", not with 400.
C4_BookThenConflict ==
    [][IsBookStep =>
         /\ Offered(last'.request) =>
               /\ last'.response.status = 200
               /\ last'.response.booking = "confirmed"
               /\ last'.response.start_time = last'.request.start_time
         /\ last'.response.status = 200 =>
               /\ AnswerIn(RUNTIME_BOOKINGS', last'.request).status = 409
               /\ AnswerIn(RUNTIME_BOOKINGS', last'.request).detail
                     = NoLongerAvailable]_vars

\* A repeated request was refused with 409 while its slot stands once in the
\* runtime list.
C4_Witness ==
    /\ last.op = "book"
    /\ last.response.status = 409
    /\ Occurrences(RUNTIME_BOOKINGS, last.request.date, BookKey(last.request)) = 1

\* The requested interval, as datetimes.
RequestedStart(req) == ParseTime(req.date, req.start_time)
RequestedEnd(req) ==
    AddMinutes(RequestedStart(req), APPOINTMENT_DURATIONS_MIN[req.appointment_type])

\* The requested interval is that of a slot of the grid (as times, whatever
\* the spelling).  An interval that ends after the last day is none.
OnGrid(req) ==
    /\ ~RequestedEnd(req).err
    /\ \E i \in 1..Len(SlotsFor(req)) :
          /\ ParseTime(req.date, SlotsFor(req)[i].start_time) = RequestedStart(req)
          /\ ParseTime(req.date, SlotsFor(req)[i].end_time) = RequestedEnd(req)

\* A request of a known type whose date and start time parse, made while the
\* schedule file is there: it asks for an interval of a day.
AsksInterval(req) ==
    /\ req.appointment_type \in AppointmentTypes
    /\ ~RequestedStart(req).err
    /\ ~StrpDate(req.date).err
    /\ schedule.exists

\* C5: a book request of a known type whose interval is that of no slot of the
\* grid of its date and type fails with 400 "outside working hours", whatever
\* is booked, and the store stays as it was.
C5_OffGridRejected ==
    [][(IsBookStep /\ AsksInterval(last'.request) /\ ~OnGrid(last'.request))
         => /\ last'.response.status = 400
            /\ last'.response.detail = OutsideHours
            /\ RUNTIME_BOOKINGS' = RUNTIME_BOOKINGS]_vars

\* The request names a generated slot by the start_time the grid gives it.
NamesSlot(req) ==
    /\ BookRejection(schedule, req).status = 0
    /\ \E i \in 1..Len(SlotsFor(req)) : SlotsFor(req)[i].start_time = req.start_time

\* Some committed interval of the request's date overlaps the requested one.
Blocked(req) ==
    \E k \in 1..Len(CommittedIntervals(req.date)) :
        Overlaps(RequestedStart(req), RequestedEnd(req),
                 CommittedIntervals(req.date)[k][1], CommittedIntervals(req.date)[k][2])

\* C6: a book request that names a generated slot which a committed interval
\* overlaps (from the file, or booked at runtime with the same or another
\* type) fails with 409 "no longer available", and nothing is committed.
C6_TakenSlotConflicts ==
    [][(IsBookStep /\ NamesSlot(last'.request) /\ Blocked(last'.request))
         => /\ last'.response.status = 409
            /\ last'.response.detail = NoLongerAvailable
            /\ RUNTIME_BOOKINGS' = RUNTIME_BOOKINGS]_vars

\* A request was refused with 409 although the file holds no booking and the
\* runtime list does not hold its slot: a booking of another type blocks it.
C6_Witness ==
    /\ last.op = "book"
    /\ last.response.status = 409
    /\ schedule.existing_bookings = << >>
    /\ Occurrences(RUNTIME_BOOKINGS, last.request.date, BookKey(last.request)) = 0

----------------------------------------------------------------------------
(* Slot generation as the availability query returns it: C7, C8, C9, C10 *)

\* The last call was an availability query that returned slots.
IsSlotsAnswer == last.op = "availability" /\ last.response.status = 200

SlotStart(date, slots, i) == ParseTime(date, slots[i].start_time)
SlotEnd(date, slots, i) == ParseTime(date, slots[i].end_time)

\* The slots form the grid of a window: the first starts at the opening, each
\* lasts duration_min, each starts where the one before it ends and later
\* than it, none ends after the closing.
IsGrid(date, slots, opening, closing, duration_min) ==
    /\ slots # << >> => SlotStart(date, slots, 1) = opening
    /\ \A i \in 1..Len(slots) :
          /\ SlotEnd(date, slots, i) = AddMinutes(SlotStart(date, slots, i), duration_min)
          /\ DtLeq(SlotEnd(date, slots, i), closing)
    /\ \A i \in 1..(Len(slots) - 1) :
          /\ SlotStart(date, slots, i + 1) = SlotEnd(date, slots, i)
          /\ DtLess(SlotStart(date, slots, i), SlotStart(date, slots, i + 1))

HasWindow(date) == GetWeekday(date) \in DOMAIN schedule.working_hours

WindowOf(date) == schedule.working_hours[GetWeekday(date)]

\* C7: for a date whose weekday has a window and any appointment type, the
\* slots returned are in ascending order, start at the opening, last the
\* type's duration each, are contiguous, and none ends after the closing.
C7_GridShape ==
    (IsSlotsAnswer /\ HasWindow(last.request.date))
    => IsGrid(last.request.date, last.response.available_slots,
              ParseTime(last.request.date, WindowOf(last.request.date).start),
              ParseTime(last.request.date, WindowOf(last.request.date).end),
              APPOINTMENT_DURATIONS_MIN[last.request.appointment_type])

\* A query returned several slots for a window that is no multiple of the
\* duration.
C7_Witness ==
    /\ IsSlotsAnswer
    /\ schedule = ScheduleBooked
    /\ Len(last.response.available_slots) >= 2

\* The intervals of the file's bookings of a date, and of its runtime bookings.
FileIntervals(date) ==
    { <<ParseTime(date, schedule.existing_bookings[k].start_time),
        ParseTime(date, schedule.existing_bookings[k].end_time)>> :
        k \in { n \in 1..Len(schedule.existing_bookings) :
                  schedule.existing_bookings[n].date = date } }

RuntimeIntervals(date) ==
    { <<ParseTime(date, RuntimeGet(RUNTIME_BOOKINGS, date)[k][1]),
        ParseTime(date, RuntimeGet(RUNTIME_BOOKINGS, date)[k][2])>> :
        k \in 1..Len(RuntimeGet(RUNTIME_BOOKINGS, date)) }

\* Half-open overlap: a touching end point is none.
Meets(a_start, a_end, b) == DtLess(a_start, b[2]) /\ DtLess(b[1], a_end)

\* C8: a returned slot is unavailable exactly when an interval of the file's
\* or of the runtime bookings of that date overlaps it, half-open.
C8_AvailableIffFree ==
    IsSlotsAnswer =>
        \A i \in 1..Len(last.response.available_slots) :
            last.response.available_slots[i].available
              = ~(\E b \in FileIntervals(last.request.date)
                             \cup RuntimeIntervals(last.request.date) :
                    Meets(SlotStart(last.request.date, last.response.available_slots, i),
                          SlotEnd(last.request.date, last.response.available_slots, i), b))

\* A query returned an available slot that ends where a booking starts, and
\* an unavailable one.
C8_Witness ==
    /\ IsSlotsAnswer
    /\ \E i, j \in 1..Len(last.response.available_slots) :
          /\ last.response.available_slots[i].available
          /\ ~last.response.available_slots[j].available
          /\ \E b \in FileIntervals(last.request.date)
                        \cup RuntimeIntervals(last.request.date) :
                b[1] = SlotEnd(last.request.date, last.response.available_slots, i)

\* An availability query that FastAPI and the handler's checks let through.
IsValidQuery ==
    /\ last.op = "availability"
    /\ MatchesDatePattern(pattern_engine, last.request.date)
    /\ last.request.appointment_type \in AppointmentTypes
    /\ ~StrpDate(last.request.date).err

\* C9: for a date whose weekday has no window in the schedule file the query
\* returns no slot, and no error, for every appointment type and whatever is
\* booked.
C9_ClosedDayEmpty ==
    (IsValidQuery /\ schedule.exists /\ ~HasWindow(last.request.date))
    => /\ last.response.status = 200
       /\ last.response.available_slots = << >>

\* A closed day was queried while the file holds a booking on it and the
\* store holds runtime bookings.
C9_Witness ==
    /\ IsValidQuery
    /\ ~HasWindow(last.request.date)
    /\ FileIntervals(last.request.date) # {}
    /\ Committed(RUNTIME_BOOKINGS) > 0

\* What every availability query would return when the bookings are `runtime`.
AnswersIn(runtime) ==
    [date \in QueryDates, appointment_type \in TypeInputs |->
        GetAvailabilityResponse(pattern_engine, schedule, runtime, date, appointment_type)]

\* A step that commits a booking.
IsCommitStep == IsBookStep /\ last'.response.status = 200

\* C10: a step that commits no booking (a query, a failed book request)
\* leaves the bookings, or at least the answer to every availability query,
\* as they were, and a query returns the answer of the bookings it leaves:
\* two queries for one date and type with no booking committed between them
\* return identical slot sequences.
C10_QueriesRepeat ==
    [][/\ ~IsCommitStep =>
             \/ RUNTIME_BOOKINGS' = RUNTIME_BOOKINGS
             \/ AnswersIn(RUNTIME_BOOKINGS') = AnswersIn(RUNTIME_BOOKINGS)
       /\ last'.op = "availability" =>
             last'.response = GetAvailabilityResponse(pattern_engine, schedule, RUNTIME_BOOKINGS',
                                                      last'.request.date,
                                                      last'.request.appointment_type)
      ]_vars

\* A book request has failed while bookings exist, so that the queries
\* before and after it see the same bookings.
C10_Witness ==
    /\ last.op = "book"
    /\ last.response.status \in {400, 409}
    /\ Committed(RUNTIME_BOOKINGS) > 0

----------------------------------------------------------------------------
(* Errors and identifiers: C11, C12 *)

\* C11: a book call that ends in an error (422 unknown type, 400 malformed
\* date or time, 400 outside working hours, 409 conflict, 500 schedule file
\* missing) leaves the runtime bookings exactly as they were; the bookings
\* change only in a call that returns a confirmation.
C11_NoPartialCommit ==
    [][IsBookStep =>
         /\ last'.response.status \in {200, 400, 409, 422, 500}
         /\ last'.response.status # 200 => RUNTIME_BOOKINGS' = RUNTIME_BOOKINGS
         /\ RUNTIME_BOOKINGS' # RUNTIME_BOOKINGS
               => /\ last'.response.status = 200
                  /\ last'.response.booking = "confirmed"]_vars

\* A request with a malformed time was rejected while bookings exist.
C11_Witness ==
    /\ last.op = "book"
    /\ last.response.detail = "Invalid date/time format"
    /\ Committed(RUNTIME_BOOKINGS) > 0

\* C12: no two confirmations carry the same booking identifier, and no two
\* the same confirmation code.  Here: the confirmations that two callers
\* hold, each from a successful call of its own.
C12_UniqueIdentifiers ==
    \A t1, t2 \in Threads :
        (t1 # t2 /\ response[t1].booking = "confirmed"
                  /\ response[t2].booking = "confirmed")
        => /\ response[t1].booking_id # response[t2].booking_id
           /\ response[t1].confirmation_code # response[t2].confirmation_code

----------------------------------------------------------------------------
(* A query beside a booking: C13 *)

\* An entry of the runtime list of a date is a whole interval: a start that
\* parses and the end that some appointment type gives it.
CompleteEntry(date, entry) ==
    /\ Len(entry) = 2
    /\ ~ParseTime(date, entry[1]).err
    /\ \E type \in AppointmentTypes :
          entry[2] = FormatTime(AddMinutes(ParseTime(date, entry[1]),
                                           APPOINTMENT_DURATIONS_MIN[type]))

\* The bookings with the commit of caller b left out, and with it done.
WithoutCommit(runtime, b) ==
    [d \in {x \in DOMAIN runtime : x # request[b].date \/ runtime[x] # << >>} |->
        runtime[d]]

WithCommit(runtime, b) ==
    [d \in DOMAIN runtime |->
        IF d = request[b].date THEN Append(runtime[d], BookKey(request[b]))
        ELSE runtime[d]]

\* The answer to the query of caller q when the bookings are `runtime`.
QueryAnswerIn(runtime, q) ==
    GetAvailabilityResponse(pattern_engine, schedule, runtime, request[q].date,
                            request[q].appointment_type)

\* C13: a query that reads the bookings while book calls are under way sees
\* in the list of its date whole (start, end) entries only, and for every
\* call that stands between setdefault and append its answer is the answer
\* of the bookings without that call's interval or of the bookings with it.
C13_NoTornRead ==
    [][\A q \in Threads :
          (pc[q] = "querying" /\ pc'[q] = "idle")
          => /\ \A i \in 1..Len(RuntimeGet(RUNTIME_BOOKINGS, request[q].date)) :
                   CompleteEntry(request[q].date,
                                 RuntimeGet(RUNTIME_BOOKINGS, request[q].date)[i])
             /\ \A b \in Threads :
                   pc[b] = "found"
                   => response'[q] \in
                         { QueryAnswerIn(WithoutCommit(RUNTIME_BOOKINGS, b), q),
                           QueryAnswerIn(WithCommit(RUNTIME_BOOKINGS, b), q) }]_vars

\* A query is about to read the bookings of a date on which one booking is
\* committed and another call has taken the list and not yet appended.
C13_Witness ==
    \E q, b \in Threads :
        /\ pc[q] = "querying"
        /\ pc[b] = "found"
        /\ request[b].date = request[q].date
        /\ Len(RuntimeGet(RUNTIME_BOOKINGS, request[q].date)) = 1

----------------------------------------------------------------------------
(* What a booking changes and what it leaves: C14, C15 *)

\* The slots that a query for the date and type of `req` gets when the
\* bookings are `runtime`.
SlotsIn(runtime, req) ==
    GenerateSlots(schedule, runtime, req.date, req.appointment_type).slots

\* `after` is the grid `before` with the slot `key` unavailable and every
\* other slot flagged as it was.
SameGridBut(before, after, key) ==
    /\ Len(after) = Len(before)
    /\ \E i \in 1..Len(after) :
          <<after[i].start_time, after[i].end_time>> = key
    /\ \A i \in 1..Len(after) :
          /\ after[i].start_time = before[i].start_time
          /\ after[i].end_time = before[i].end_time
          /\ after[i].available =
                IF <<after[i].start_time, after[i].end_time>> = key
                THEN FALSE ELSE before[i].available

\* C14: after a confirmed booking of slot s on date d with type t, a query
\* for (d, t), where d is a date that the query accepts, returns the grid it
\* returned before, with s unavailable and every other slot flagged as before.
C14_FrameAfterBooking ==
    [][(IsCommitStep /\ MatchesDatePattern(pattern_engine, last'.request.date))
         => SameGridBut(SlotsIn(RUNTIME_BOOKINGS, last'.request),
                        SlotsIn(RUNTIME_BOOKINGS', last'.request),
                        <<last'.response.start_time, last'.response.end_time>>)]_vars

\* A booking was confirmed on a date that can be queried, and the grid of its
\* date and type has a slot that is still available.
C14_Witness ==
    /\ last.op = "book"
    /\ last.response.status = 200
    /\ MatchesDatePattern(pattern_engine, last.request.date)
    /\ \E i \in 1..Len(SlotsIn(RUNTIME_BOOKINGS, last.request)) :
          SlotsIn(RUNTIME_BOOKINGS, last.request)[i].available

\* Every list of `old` is there in `new`, with its entries, in their places.
StoreGrows(old, new) ==
    \A d \in DOMAIN old :
        /\ d \in DOMAIN new
        /\ Len(new[d]) >= Len(old[d])
        /\ SubSeq(new[d], 1, Len(old[d])) = old[d]

\* The slots a query returns, none when it fails.
QuerySlots(runtime, date, appointment_type) ==
    GetAvailabilityResponse(pattern_engine, schedule, runtime, date, appointment_type).available_slots

\* Each slot that a query reports unavailable with the bookings `old` is
\* reported unavailable with the bookings `new`.
StaysUnavailable(old, new) ==
    \A date \in Dates, appointment_type \in AppointmentTypes :
        \A i \in 1..Len(QuerySlots(old, date, appointment_type)) :
            ~QuerySlots(old, date, appointment_type)[i].available
            => /\ i <= Len(QuerySlots(new, date, appointment_type))
               /\ QuerySlots(new, date, appointment_type)[i].start_time
                     = QuerySlots(old, date, appointment_type)[i].start_time
               /\ ~QuerySlots(new, date, appointment_type)[i].available

\* C15: no step removes or alters a committed interval, and with the
\* schedule file unchanged a slot that a query reports unavailable is
\* reported unavailable by the queries after every later step.
C15_StoreOnlyGrows ==
    [][/\ StoreGrows(RUNTIME_BOOKINGS, RUNTIME_BOOKINGS')
       /\ \/ RUNTIME_BOOKINGS' = RUNTIME_BOOKINGS
          \/ StaysUnavailable(RUNTIME_BOOKINGS, RUNTIME_BOOKINGS')]_vars

\* A query reports an unavailable slot on a date with two runtime bookings.
C15_Witness ==
    /\ IsSlotsAnswer
    /\ Len(RuntimeGet(RUNTIME_BOOKINGS, last.request.date)) >= 2
    /\ \E i \in 1..Len(last.response.available_slots) :
          ~last.response.available_slots[i].available

----------------------------------------------------------------------------
(* The number of slots: C16 *)

\* Minutes from the opening to the closing of the window of a date.
WindowMinutes(date) ==
    ParseTime(date, WindowOf(date).end).min - ParseTime(date, WindowOf(date).start).min

\* C16: for a window (opening before closing) and any type the generation
\* ends and the query returns floor(window length / duration) slots: one
\* more would end after the closing, and a slot that ends exactly at the
\* closing is returned.
C16_MaximalGrid ==
    (IsValidQuery /\ schedule.exists /\ HasWindow(last.request.date))
    => LET n == Len(last.response.available_slots)
           duration_min == APPOINTMENT_DURATIONS_MIN[last.request.appointment_type]
       IN  /\ last.response.status = 200
           /\ n = WindowMinutes(last.request.date) \div duration_min
           /\ n * duration_min <= WindowMinutes(last.request.date)
           /\ (n + 1) * duration_min > WindowMinutes(last.request.date)
           /\ WindowMinutes(last.request.date) % duration_min = 0
                 => /\ n >= 1
                    /\ last.response.available_slots[n].end_time
                          = WindowOf(last.request.date).end

----------------------------------------------------------------------------
(* The schedule file edited after a booking: C17 *)

\* On `date` a booking of the file overlaps a runtime booking.
DoubledIn(schedule_data, runtime, date) ==
    \E k \in 1..Len(schedule_data.existing_bookings) :
        /\ schedule_data.existing_bookings[k].date = date
        /\ \E i \in 1..Len(RuntimeGet(runtime, date)) :
              Overlaps(ParseTime(date, schedule_data.existing_bookings[k].start_time),
                       ParseTime(date, schedule_data.existing_bookings[k].end_time),
                       ParseTime(date, RuntimeGet(runtime, date)[i][1]),
                       ParseTime(date, RuntimeGet(runtime, date)[i][2]))

\* C17: a booking added to the schedule file over an interval that was
\* booked at runtime gives two overlapping committed intervals on the date,
\* and no call notices: the overlap stays through every later step, a query
\* for the date still returns its whole grid with status 200, and a book
\* call for the date ends as any other, confirmed or refused with 400 or 409.
C17_DoubleBookingUndetected ==
    [][\A date \in {D_MON} :
          DoubledIn(schedule, RUNTIME_BOOKINGS, date)
          => /\ DoubledIn(schedule', RUNTIME_BOOKINGS', date)
             /\ StoreGrows(RUNTIME_BOOKINGS, RUNTIME_BOOKINGS')
             /\ (last'.op = "availability" /\ last'.request.date = date)
                   => /\ last'.response.status = 200
                      /\ Len(last'.response.available_slots)
                            = WindowMinutes(date)
                                \div APPOINTMENT_DURATIONS_MIN[last'.request.appointment_type]
             /\ (last'.op = "book" /\ last'.request.date = date)
                   => last'.response.status \in {200, 400, 409}]_vars

\* A query was answered while a booking of the file overlaps a runtime
\* booking of the queried date.
C17_Witness ==
    /\ IsSlotsAnswer
    /\ DoubledIn(schedule, RUNTIME_BOOKINGS, last.request.date)

----------------------------------------------------------------------------
(* Spellings of a date and of a time: C18, C19 *)

\* Some committed interval of the calendar day of the request, kept under
\* any spelling of that day, overlaps the requested interval.
BlockedOnDay(req) ==
    \E d \in Dates :
        /\ ~StrpDate(d).err
        /\ StrpDate(d).day = StrpDate(req.date).day
        /\ \E k \in 1..Len(CommittedIntervals(d)) :
              Overlaps(RequestedStart(req), RequestedEnd(req),
                       CommittedIntervals(d)[k][1], CommittedIntervals(d)[k][2])

\* C18: book knows a date by its calendar day: a request that names a
\* generated slot which a booking of the same day overlaps, whichever
\* spelling of the day the booking was made or filed under, fails with 409
\* and commits nothing.
C18_DayNotSpelling ==
    [][(IsBookStep /\ NamesSlot(last'.request) /\ BlockedOnDay(last'.request))
         => /\ last'.response.status = 409
            /\ RUNTIME_BOOKINGS' = RUNTIME_BOOKINGS]_vars

\* C19: book answers 400 "outside working hours" only when the requested
\* time of day is the start of no generated slot: a request whose interval
\* is that of a slot of the grid, however its start time is spelled, is
\* confirmed or refused with 409.
C19_TimeNotSpelling ==
    [][(IsBookStep /\ BookRejection(schedule, last'.request).status = 0
                   /\ OnGrid(last'.request))
         => /\ last'.response.detail # OutsideHours
            /\ last'.response.status \in {200, 409}]_vars

----------------------------------------------------------------------------
(* Bookings of other dates: C20 *)

\* The last entry of the runtime list of a date.
LastEntry(runtime, date) ==
    RuntimeGet(runtime, date)[Len(RuntimeGet(runtime, date))]

\* The runtime list and the answer to every query for `date` are the same
\* with the bookings `old` and with the bookings `new`.
DateUntouched(old, new, date) ==
    /\ RuntimeGet(new, date) = RuntimeGet(old, date)
    /\ \A appointment_type \in TypeInputs :
          GetAvailabilityResponse(pattern_engine, schedule, new, date, appointment_type)
            = GetAvailabilityResponse(pattern_engine, schedule, old, date, appointment_type)

\* C20: a confirmed booking on date d appends one entry to the runtime list
\* of d, the interval from the requested start to that start plus the
\* duration, and for every other date the list and the answer to every
\* availability query stay as they were.
C20_OtherDatesUntouched ==
    [][IsCommitStep =>
         /\ RuntimeGet(RUNTIME_BOOKINGS', last'.request.date)
               = Append(RuntimeGet(RUNTIME_BOOKINGS, last'.request.date),
                        LastEntry(RUNTIME_BOOKINGS', last'.request.date))
         /\ ParseTime(last'.request.date,
                      LastEntry(RUNTIME_BOOKINGS', last'.request.date)[1])
               = RequestedStart(last'.request)
         /\ ParseTime(last'.request.date,
                      LastEntry(RUNTIME_BOOKINGS', last'.request.date)[2])
               = RequestedEnd(last'.request)
         /\ \A date \in (DOMAIN RUNTIME_BOOKINGS' \cup Dates \cup TwoDays)
                          \ {last'.request.date} :
               DateUntouched(RUNTIME_BOOKINGS, RUNTIME_BOOKINGS', date)]_vars

\* A booking was confirmed on one day while another day has runtime
\* bookings, so that the grid of the other day has a slot taken.
C20_Witness ==
    /\ last.op = "book"
    /\ last.response.status = 200
    /\ \E date \in DOMAIN RUNTIME_BOOKINGS :
          /\ StrpDate(date).day # StrpDate(last.request.date).day
          /\ RUNTIME_BOOKINGS[date] # << >>

====
